---- MODULE Spec2Model ----
(***************************************************************************)
(* LocalStorage of the Seashell frontend: the four Dexie tables (files,    *)
(* projects, settings, changeLogs), the file and project operations built  *)
(* on them, the change-log stack and applyChanges.                         *)
(*                                                                         *)
(* Every public method runs its body in one db.transaction("rw", tbs, ...) *)
(* over all four tables.  A method called from inside another method's     *)
(* body joins the caller's transaction, so a top-level call is one atomic  *)
(* step: it commits all its writes, or it throws and none is kept.  The    *)
(* methods are therefore operators from a database value to a result       *)
(* [db, err, ret], and each action applies one of them to the tables.      *)
(*                                                                         *)
(* pushChangeLog is the one method that reads (the top of the log) before  *)
(* it opens its transaction; callers holds, for each concurrent caller of  *)
(* it, what the caller has read and is about to push.                      *)
(***************************************************************************)
EXTENDS Integers, Sequences, FiniteSets, TLC

VARIABLES files, projects, settings, changeLogs, nextId, last, callers

vars == <<files, projects, settings, changeLogs, nextId, last, callers>>

(***************************************************************************)
(* Bounds of the model.                                                    *)
(***************************************************************************)
\* the auto-incremented key of changeLogs never goes above MaxId
MaxId == 4
\* the longest remote log handed to applyChanges
MaxBatch == 3

ProjNames == {"P", "Q"}
\* the projects the model makes files in
FileProjects == {"P"}
FileNames == {"a", "b"}
Questions == {"q1"}

(***************************************************************************)
(* Values.                                                                 *)
(***************************************************************************)
\* the JavaScript value undefined, where a string is expected
Undefined == "<undefined>"
\* the JavaScript value false, where a string is expected
False == "<false>"
\* an argument or result a call does not have
None == "-"

\* md5 is taken to be free of collisions: the digest of s is s in brackets,
\* so that the digest of a digest, or of a concatenation, is no digest of
\* anything else.
md5(s) == "[" \o s \o "]"

\* md5(name), the id newProject gives a project
projectId(name) == md5(name)

\* md5(pid + name), the id newFile gives a file
fileId(pid, name) == md5(pid \o name)

ProjectIds == {projectId(n) : n \in ProjNames}
FileProjectIds == {projectId(n) : n \in FileProjects}
FileIds == {fileId(p, n) : p \in FileProjectIds, n \in FileNames}

\* a data: URI with a base64 payload, and what window.atob makes of it
DataUri == "data:text/plain;base64,WA=="
PlainUri == "data:text/plain,WA=="

\* rmatch of newFile: does the contents match the data: pattern?
IsDataUri(contents) == contents \in {DataUri, PlainUri}

\* rmatch[3] || rmatch[1] === "base64"
HasBase64Marker(contents) == contents = DataUri

\* window.atob(rmatch[4])
atob(contents) == IF contents \in {DataUri, PlainUri} THEN "X" ELSE contents

(***************************************************************************)
(* Records.                                                                *)
(***************************************************************************)
\* "no change log": what topChangeLog and popChangeLog return as false
NoChangeLog == [id |-> 0, type |-> None, file |-> None, project |-> None,
                contents |-> Undefined]

\* "no file": the File a call that returns none is recorded with
NoFile == [id |-> None, project |-> None, name |-> None, contents |-> Undefined,
           checksum |-> "", open |-> 0]

\* runs: {}, a project's map from question to the file to run
NoRuns == [q \in {} |-> None]

\* Date.now() when a row is added; the times of the later calls are inputs
Epoch == 0

\* "no project": a missing row of the projects table
NoProject == [id |-> None, name |-> None, runs |-> NoRuns,
              last_modified |-> Epoch]

\* the database: the four tables and the key generator of changeLogs
Database(f, p, s, c, n) ==
  [files |-> f, projects |-> p, settings |-> s, changeLogs |-> c, nextId |-> n]

\* a call that returned ret, leaving the tables as db
Return(db, ret) == [db |-> db, err |-> "ok", ret |-> ret]

\* a call that threw err, with the tables as db when it threw
Throw(db, err) == [db |-> db, err |-> err, ret |-> None]

\* the function f without the key k
Without(f, k) == [x \in DOMAIN f \ {k} |-> f[x]]

\* the function f with the key k set to v
With(f, k, v) == [x \in DOMAIN f \cup {k} |-> IF x = k THEN v ELSE f[x]]

\* a transaction that keeps the writes of a body that threw
transactionNoRollback(db, r) == r.db

\* db.transaction("rw", tbs, body) at the top level: the writes of a body
\* that returned are committed together, those of a body that threw are
\* rolled back, the key generator included.
transaction(db, r) == IF r.err = "ok" THEN r.db ELSE db

(***************************************************************************)
(* The change log.                                                         *)
(***************************************************************************)
\* changeLogs.orderBy("id").reverse().toArray(): the entries, newest first
getChangeLogs(db) ==
  [i \in 1..Len(db.changeLogs) |-> db.changeLogs[Len(db.changeLogs) + 1 - i]]

\* the entry with the greatest id, or false
topChangeLog(db) ==
  IF Len(db.changeLogs) = 0 THEN NoChangeLog
  ELSE db.changeLogs[Len(db.changeLogs)]

\* changeLogs.delete(id)
deleteChangeLog(db, id) ==
  [db EXCEPT !.changeLogs = SelectSeq(db.changeLogs, LAMBDA e : e.id # id)]

\* changeLogs.put(change): a change without id gets the next key; one with an
\* id replaces the entry of that key, or is inserted at it
putChangeLog(db, change) ==
  LET id == IF change.id = 0 THEN db.nextId ELSE change.id
      lower == SelectSeq(db.changeLogs, LAMBDA e : e.id < id)
      upper == SelectSeq(db.changeLogs, LAMBDA e : e.id > id)
  IN  [db EXCEPT !.changeLogs = lower \o <<[change EXCEPT !.id = id]>> \o upper,
                 !.nextId = IF id >= db.nextId THEN id + 1 ELSE db.nextId]

\* popChangeLog that removes and returns the oldest entry
popChangeLogOldest(db) ==
  IF Len(db.changeLogs) = 0 THEN Return(db, NoChangeLog)
  ELSE Return(deleteChangeLog(db, db.changeLogs[1].id), db.changeLogs[1])

\* removes the top entry and returns it, or returns false
popChangeLog(db) ==
  LET top == topChangeLog(db)
  IN  IF top # NoChangeLog
      THEN IF top.id # 0
           THEN Return(deleteChangeLog(db, top.id), top)
           ELSE Return(db, NoChangeLog)
      ELSE Return(db, NoChangeLog)

\* pushChangeLog without the coalescing of editFile changes
pushChangeLogAppendOnly(db, change) ==
  Return(putChangeLog(db, change),
         IF change.id = 0 THEN db.nextId ELSE change.id)

\* a transaction of pushChangeLog that pops the top entry for every editFile
\* change, whatever the type of the top entry
pushChangeLogTxAnyTop(db, top, change) ==
  LET db1 == IF top # NoChangeLog /\ change.type = "editFile"
             THEN popChangeLog(db).db
             ELSE db
      db2 == putChangeLog(db1, change)
  IN  Return(db2, IF change.id = 0 THEN db1.nextId ELSE change.id)

\* the transaction of pushChangeLog, given the top entry read before it:
\* when the change and that entry are both editFile, the entry that is on
\* top now is popped; then the change is put
pushChangeLogTx(db, top, change) ==
  LET db1 == IF top # NoChangeLog /\ change.type = "editFile" /\ top.type = "editFile"
             THEN popChangeLog(db).db
             ELSE db
      db2 == putChangeLog(db1, change)
  IN  Return(db2, IF change.id = 0 THEN db1.nextId ELSE change.id)

\* pushChangeLog with nothing between its read of the top entry and its
\* transaction: a call from inside a transaction, or a call alone
pushChangeLog(db, change) == pushChangeLogTx(db, topChangeLog(db), change)

\* changeLogs.count()
countChangeLogs(db) == Len(db.changeLogs)

\* a clear that is lost
clearChangeLogsLost(db) == Return(db, None)

\* changeLogs.clear()
clearChangeLogs(db) == Return([db EXCEPT !.changeLogs = <<>>], None)

\* a change as the file operations build it: no id yet
Change(type, file, project, contents) ==
  [id |-> 0, type |-> type, file |-> file, project |-> project,
   contents |-> contents]

(***************************************************************************)
(* Files and projects.                                                     *)
(***************************************************************************)
\* the project of that id; throws when there is none
getProject(db, pid) ==
  IF pid \notin DOMAIN db.projects
  THEN Throw(db, "NotFound")
  ELSE Return(db, db.projects[pid])

\* readFile that returns no file instead of throwing
readFileNoThrow(db, fid) ==
  IF fid \notin DOMAIN db.files
  THEN Return(db, NoFile)
  ELSE Return(db, db.files[fid])

\* the file of that id; throws when there is none
readFile(db, fid) ==
  IF fid \notin DOMAIN db.files
  THEN Throw(db, "NotFound")
  ELSE Return(db, db.files[fid])

\* writeFile that stores the contents and leaves the checksum as it was
writeFileStaleChecksum(db, fid, contents) ==
  LET rf == readFile(db, fid)
      file == rf.ret
      db1 == pushChangeLog(db, Change("editFile", file.name, file.project,
                                      contents)).db
      db2 == [db1 EXCEPT !.files[fid].contents = contents]
  IN  IF rf.err # "ok" THEN Throw(db, rf.err) ELSE Return(db2, None)

\* pushes an editFile change for the file as it is, then stores the contents
\* and their checksum
writeFile(db, fid, contents) ==
  LET checksum == IF contents = Undefined THEN "" ELSE md5(contents)
      rf == readFile(db, fid)
      file == rf.ret
      db1 == pushChangeLog(db, Change("editFile", file.name, file.project,
                                      contents)).db
      db2 == [db1 EXCEPT !.files[fid].contents = contents,
                         !.files[fid].checksum = checksum]
  IN  IF rf.err # "ok" THEN Throw(db, rf.err) ELSE Return(db2, None)

\* the runs of a project without the questions that run id
pruneRuns(runs, id) ==
  [q \in {x \in DOMAIN runs : runs[x] # id} |-> runs[q]]

\* deleteFile that pushes no change
deleteFileNoLog(db, id) ==
  LET rf == readFile(db, id)
      file == rf.ret
      db2 == [db EXCEPT !.files = Without(db.files, id)]
      rp == getProject(db2, file.project)
      dbProj == rp.ret
      pruned == [dbProj EXCEPT !.runs = pruneRuns(dbProj.runs, id)]
      db3 == [db2 EXCEPT !.projects = With(db2.projects, file.project, pruned)]
  IN  IF rf.err # "ok" THEN Throw(db, rf.err)
      ELSE IF rp.err # "ok" THEN Throw(db2, rp.err)
      ELSE Return(db3, None)

\* deletes the file, pushes a deleteFile change and takes the file out of
\* the runs of its project
deleteFile(db, id) ==
  LET rf == readFile(db, id)
      file == rf.ret
      db1 == [db EXCEPT !.files = Without(db.files, id)]
      db2 == pushChangeLog(db1, Change("deleteFile", file.name, file.project,
                                       Undefined)).db
      rp == getProject(db2, file.project)
      dbProj == rp.ret
      pruned == [dbProj EXCEPT !.runs = pruneRuns(dbProj.runs, id)]
      db3 == [db2 EXCEPT !.projects = With(db2.projects, file.project, pruned)]
  IN  IF rf.err # "ok" THEN Throw(db, rf.err)
      ELSE IF rp.err # "ok" THEN Throw(db2, rp.err)
      ELSE IF dbProj = NoProject THEN Return(db2, None)
      ELSE Return(db3, None)

\* renameFile that pushes the deleteFile change before the newFile change
renameFileDeleteFirst(db, fid, newName) ==
  LET rf == readFile(db, fid)
      file == rf.ret
      db1 == [db EXCEPT !.files[fid].name = newName]
      db2 == pushChangeLog(db1, Change("deleteFile", file.name, file.project,
                                       Undefined)).db
      db3 == pushChangeLog(db2, Change("newFile", newName, file.project,
                                       file.contents)).db
  IN  IF rf.err # "ok" THEN Throw(db, rf.err) ELSE Return(db3, None)

\* stores the new name under the same id, then pushes a newFile change for
\* the new name and a deleteFile change for the old one
renameFile(db, fid, newName) ==
  LET rf == readFile(db, fid)
      file == rf.ret
      db1 == [db EXCEPT !.files[fid].name = newName]
      db2 == pushChangeLog(db1, Change("newFile", newName, file.project,
                                       file.contents)).db
      db3 == pushChangeLog(db2, Change("deleteFile", file.name, file.project,
                                       Undefined)).db
  IN  IF rf.err # "ok" THEN Throw(db, rf.err) ELSE Return(db3, None)

\* p.runs[question] || false
getFileToRun(db, proj, question) ==
  LET rp == getProject(db, proj)
      p == rp.ret
  IN  IF rp.err # "ok" THEN Throw(db, rp.err)
      ELSE IF question \in DOMAIN p.runs /\ p.runs[question] # ""
           THEN Return(db, p.runs[question])
           ELSE Return(db, False)

\* current.runs[question] = filename
setFileToRun(db, pid, question, filename) ==
  LET rp == getProject(db, pid)
      current == rp.ret
      runs == With(current.runs, question, filename)
  IN  IF rp.err # "ok" THEN Throw(db, rp.err)
      ELSE Return([db EXCEPT !.projects[pid].runs = runs], None)

\* the contents newFile stores: "" for none given, the decoded payload for a
\* data: URI marked base64 when base64 is asked for
newFileContents(contents, base64) ==
  LET given == IF contents = Undefined THEN "" ELSE contents
  IN  IF base64 /\ IsDataUri(given) /\ HasBase64Marker(given)
      THEN atob(given)
      ELSE given

\* files.where({name, project}).count()
countFiles(db, name, pid) ==
  Cardinality({f \in DOMAIN db.files :
                 db.files[f].name = name /\ db.files[f].project = pid})

\* newFile that does not look the project up
newFileAnyProject(db, pid, name, contents, base64) ==
  LET stored == newFileContents(contents, base64)
      checksum == md5(stored)
      fid == fileId(pid, name)
      db1 == [db EXCEPT !.files =
                With(db.files, fid,
                     [id |-> fid, project |-> pid, name |-> name,
                      contents |-> stored, checksum |-> checksum, open |-> 0])]
      db2 == pushChangeLog(db1, Change("newFile", name, pid, stored)).db
  IN  IF countFiles(db, name, pid) > 0 THEN Throw(db, "AlreadyExists")
      ELSE IF fid \in DOMAIN db.files THEN Throw(db, "ConstraintError")
      ELSE readFile(db2, fid)

\* newFile with files.put for files.add: a record of the same id is
\* overwritten
newFilePut(db, pid, name, contents, base64) ==
  LET stored == newFileContents(contents, base64)
      checksum == md5(stored)
      fid == fileId(pid, name)
      rp == getProject(db, pid)
      db1 == [db EXCEPT !.files =
                With(db.files, fid,
                     [id |-> fid, project |-> pid, name |-> name,
                      contents |-> stored, checksum |-> checksum, open |-> 0])]
      db2 == pushChangeLog(db1, Change("newFile", name, pid, stored)).db
  IN  IF countFiles(db, name, pid) > 0 THEN Throw(db, "AlreadyExists")
      ELSE IF rp.err # "ok" THEN Throw(db, rp.err)
      ELSE readFile(db2, fid)

\* adds the file under md5(pid + name), pushes a newFile change and returns
\* the file
newFile(db, pid, name, contents, base64) ==
  LET stored == newFileContents(contents, base64)
      checksum == md5(stored)
      fid == fileId(pid, name)
      rp == getProject(db, pid)
      db1 == [db EXCEPT !.files =
                With(db.files, fid,
                     [id |-> fid, project |-> pid, name |-> name,
                      contents |-> stored, checksum |-> checksum, open |-> 0])]
      db2 == pushChangeLog(db1, Change("newFile", name, pid, stored)).db
  IN  IF countFiles(db, name, pid) > 0 THEN Throw(db, "AlreadyExists")
      ELSE IF rp.err # "ok" THEN Throw(db, rp.err)
      ELSE IF fid \in DOMAIN db.files THEN Throw(db, "ConstraintError")
      ELSE readFile(db2, fid)

\* adds the project under md5(name) and returns it
newProject(db, name) ==
  LET pid == projectId(name)
      db1 == [db EXCEPT !.projects =
                With(db.projects, pid,
                     [id |-> pid, name |-> name, runs |-> NoRuns,
                      last_modified |-> Epoch])]
  IN  IF pid \in DOMAIN db.projects THEN Throw(db, "ConstraintError")
      ELSE getProject(db1, pid)

\* deleteProject that leaves the files of the project
deleteProjectKeepFiles(db, pid) ==
  Return([db EXCEPT !.projects = Without(db.projects, pid)], None)

\* deletes the project and the files whose project it is
deleteProject(db, pid) ==
  LET kept == {f \in DOMAIN db.files : db.files[f].project # pid}
  IN  Return([db EXCEPT !.projects = Without(db.projects, pid),
                        !.files = [f \in kept |-> db.files[f]]], None)

\* new FileBrief(file): the file without its contents
FileBrief(file) ==
  [id |-> file.id, project |-> file.project, name |-> file.name,
   checksum |-> file.checksum, open |-> file.open]

\* getProjectFiles that puts the project back without its runs
getProjectFilesNoRuns(db, pid, now) ==
  LET rp == getProject(db, pid)
      p == [rp.ret EXCEPT !.last_modified = now, !.runs = NoRuns]
      db1 == [db EXCEPT !.projects = With(db.projects, p.id, p)]
      fbs == {FileBrief(db1.files[f]) :
                f \in {x \in DOMAIN db1.files : db1.files[x].project = pid}}
  IN  IF rp.err # "ok" THEN Throw(db, rp.err) ELSE Return(db1, fbs)

\* puts the project back with last_modified set to now, and returns the
\* files whose project it is
getProjectFiles(db, pid, now) ==
  LET rp == getProject(db, pid)
      p == [rp.ret EXCEPT !.last_modified = now]
      db1 == [db EXCEPT !.projects = With(db.projects, p.id, p)]
      fbs == {FileBrief(db1.files[f]) :
                f \in {x \in DOMAIN db1.files : db1.files[x].project = pid}}
  IN  IF rp.err # "ok" THEN Throw(db, rp.err) ELSE Return(db1, fbs)

\* files.update(fid, {open: open}): nothing is updated when there is no file
\* of that id
updateOpen(db, fid, open) ==
  IF fid \in DOMAIN db.files
  THEN [db EXCEPT !.files[fid].open = open]
  ELSE db

\* the files of the project that are open
getOpenTabs(db, proj) ==
  Return(db, {FileBrief(db.files[f]) :
                f \in {x \in DOMAIN db.files :
                         db.files[x].project = proj /\ db.files[x].open = 1}})

addOpenTab(db, fid) == Return(updateOpen(db, fid, 1), None)

\* removeOpenTab with the update of addOpenTab
removeOpenTabAsAdd(db, fid) == Return(updateOpen(db, fid, 1), None)

removeOpenTab(db, fid) == Return(updateOpen(db, fid, 0), None)

(***************************************************************************)
(* Settings.                                                               *)
(***************************************************************************)
\* new Settings(): the instance getSettings returns while the table is empty
DefaultSettings ==
  [id |-> 0, editor_mode |-> "default", font_size |-> "default",
   font |-> "default", theme |-> "default", space_tab |-> "default",
   tab_width |-> "default"]

\* settings.get(0) || new Settings()
getSettings(db) ==
  IF 0 \in DOMAIN db.settings
  THEN Return(db, db.settings[0])
  ELSE Return(db, DefaultSettings)

\* setSettings that stores the font size as the tab width
setSettingsTabWidth(db, settings_) ==
  Return([db EXCEPT !.settings =
            With(db.settings, 0,
                 [id |-> 0, editor_mode |-> settings_.editor_mode,
                  font_size |-> settings_.font_size, font |-> settings_.font,
                  theme |-> settings_.theme, space_tab |-> settings_.space_tab,
                  tab_width |-> settings_.font_size])], None)

\* settings.put({id: 0, ...}): the one row of key 0 is overwritten
setSettings(db, settings_) ==
  Return([db EXCEPT !.settings =
            With(db.settings, 0,
                 [id |-> 0, editor_mode |-> settings_.editor_mode,
                  font_size |-> settings_.font_size, font |-> settings_.font,
                  theme |-> settings_.theme, space_tab |-> settings_.space_tab,
                  tab_width |-> settings_.tab_width])], None)

(***************************************************************************)
(* applyChanges.                                                           *)
(***************************************************************************)
\* one change of the remote log: the ids are derived again from the names
applyChange(db, change) ==
  LET pid == md5(change.project)
      fid == md5(pid \o change.file)
  IN  IF change.type = "deleteFile" THEN deleteFile(db, fid)
      ELSE IF change.type = "editFile" THEN writeFile(db, fid, change.contents)
      ELSE IF change.type = "newFile"
           THEN newFile(db, pid, change.file, change.contents, FALSE)
      ELSE Throw(db, "Malformed")

\* for (const proj of newProjects) await this.newProject(proj)
RECURSIVE applyNewProjects(_, _)
applyNewProjects(db, newProjects) ==
  IF newProjects = <<>> THEN Return(db, None)
  ELSE LET r == newProject(db, Head(newProjects))
       IN  IF r.err # "ok" THEN r
           ELSE applyNewProjects(r.db, Tail(newProjects))

\* for (const change of changeLogs) ...
RECURSIVE applyChangeLogs(_, _)
applyChangeLogs(db, changes) ==
  IF changes = <<>> THEN Return(db, None)
  ELSE LET r == applyChange(db, Head(changes))
       IN  IF r.err # "ok" THEN r
           ELSE applyChangeLogs(r.db, Tail(changes))

\* for (const pid of deletedProjects) await this.deleteProject(pid)
RECURSIVE applyDeletedProjects(_, _)
applyDeletedProjects(db, deletedProjects) ==
  IF deletedProjects = <<>> THEN Return(db, None)
  ELSE applyDeletedProjects(deleteProject(db, Head(deletedProjects)).db,
                            Tail(deletedProjects))

\* the new projects, the changes in order, the deleted projects, and then
\* the local change log is cleared; the first call that throws ends it
applyChanges(db, changes, newProjects, deletedProjects) ==
  LET r1 == applyNewProjects(db, newProjects)
      r2 == applyChangeLogs(r1.db, changes)
      r3 == applyDeletedProjects(r2.db, deletedProjects)
  IN  IF r1.err # "ok" THEN r1
      ELSE IF r2.err # "ok" THEN r2
      ELSE clearChangeLogs(r3.db)

(***************************************************************************)
(* The state machine: one action per public method, each one top-level     *)
(* call.  last records the latest call and its outcome.                    *)
(***************************************************************************)
\* the tables as one database value
Db == Database(files, projects, settings, changeLogs, nextId)

\* the entries of the log before that are no longer in the log after
Popped(before, after) ==
  SelectSeq(before, LAMBDA e : \A i \in 1..Len(after) : after[i] # e)

\* the record of a call op with result r that left the tables as db:
\*   res         "ok", or the error thrown
\*   popped      the entries of the log the call removed
\*   pushed      how many keys of changeLogs the call used
\*   removed     the ids of the files the call removed
\*   rolledBack  the call threw after it had written
Call(op, r, db) ==
  [op |-> op, res |-> r.err,
   popped |-> Popped(changeLogs, db.changeLogs),
   pushed |-> db.nextId - nextId,
   removed |-> DOMAIN files \ DOMAIN db.files,
   rolledBack |-> r.err # "ok" /\ r.db # Db]

\* the transaction of a call op with result r commits or rolls back, and
\* the call is recorded
Commit(op, r) ==
  LET db == transaction(Db, r)
  IN  /\ r.db.nextId <= MaxId + 1
      /\ files' = db.files
      /\ projects' = db.projects
      /\ settings' = db.settings
      /\ changeLogs' = db.changeLogs
      /\ nextId' = db.nextId
      /\ last' = Call(op, r, db)

\* a top-level call op with result r that is one transaction
Finish(op, r) == Commit(op, r) /\ UNCHANGED callers

\* the concurrent callers of pushChangeLog
Callers == {"c1", "c2"}

\* a caller that is in no call
Idle == [pc |-> "idle", top |-> NoChangeLog, change |-> NoChangeLog]

Init ==
  /\ files = [f \in {} |-> NoFile]
  /\ projects = [p \in {} |-> NoProject]
  /\ settings = [k \in {} |-> None]
  /\ changeLogs = <<>>
  /\ nextId = 1
  /\ last = [op |-> "none", res |-> "ok", popped |-> <<>>, pushed |-> 0,
             removed |-> {}, rolledBack |-> FALSE]
  /\ callers = [c \in Callers |-> Idle]

NewProject(name) == Finish("newProject", newProject(Db, name))

DeleteProject(pid) == Finish("deleteProject", deleteProject(Db, pid))

NewFile(pid, name, contents, base64) ==
  Finish("newFile", newFile(Db, pid, name, contents, base64))

ReadFile(fid) == Finish("readFile", readFile(Db, fid))

WriteFile(fid, contents) == Finish("writeFile", writeFile(Db, fid, contents))

RenameFile(fid, newName) == Finish("renameFile", renameFile(Db, fid, newName))

DeleteFile(fid) == Finish("deleteFile", deleteFile(Db, fid))

SetFileToRun(pid, question, filename) ==
  Finish("setFileToRun", setFileToRun(Db, pid, question, filename))

GetFileToRun(pid, question) ==
  Finish("getFileToRun", getFileToRun(Db, pid, question))

ApplyChanges(changes, newProjects, deletedProjects) ==
  Finish("applyChanges",
         applyChanges(Db, changes, newProjects, deletedProjects))

GetProjectFiles(pid, now) ==
  Finish("getProjectFiles", getProjectFiles(Db, pid, now))

GetOpenTabs(proj) == Finish("getOpenTabs", getOpenTabs(Db, proj))

AddOpenTab(fid) == Finish("addOpenTab", addOpenTab(Db, fid))

RemoveOpenTab(fid) == Finish("removeOpenTab", removeOpenTab(Db, fid))

SetSettings(settings_) == Finish("setSettings", setSettings(Db, settings_))

GetSettings == Finish("getSettings", getSettings(Db))

TopChangeLog == Finish("topChangeLog", Return(Db, topChangeLog(Db)))

PushChangeLog(change) == Finish("pushChangeLog", pushChangeLog(Db, change))

PopChangeLog == Finish("popChangeLog", popChangeLog(Db))

CountChangeLogs == Finish("countChangeLogs", Return(Db, countChangeLogs(Db)))

GetChangeLogs == Finish("getChangeLogs", Return(Db, getChangeLogs(Db)))

ClearChangeLogs == Finish("clearChangeLogs", clearChangeLogs(Db))

\* a caller calls pushChangeLog(change) from outside any transaction: it
\* awaits topChangeLog(), a transaction of its own, and keeps what it read
BeginPush(c, change) ==
  /\ callers[c].pc = "idle"
  /\ callers' = [callers EXCEPT ![c] = [pc |-> "read", top |-> topChangeLog(Db),
                                         change |-> change]]
  /\ UNCHANGED <<files, projects, settings, changeLogs, nextId, last>>

\* the caller's transaction runs, on the log as it is by then
EndPush(c) ==
  /\ callers[c].pc = "read"
  /\ Commit("pushChangeLog",
            pushChangeLogTx(Db, callers[c].top, callers[c].change))
  /\ callers' = [callers EXCEPT ![c] = Idle]

(***************************************************************************)
(* Spec: the local operations, with files a and b in project P.            *)
(***************************************************************************)
\* the contents the model writes, and those it creates files with: plain
\* contents, and a data: URI for base64
WriteContents == {"Y", Undefined}
NewContents == {<<"X", FALSE>>, <<DataUri, TRUE>>}
\* the file names the model sets a question to run
RunNames == {"a", fileId(projectId("P"), "a")}

Next ==
  \/ \E name \in ProjNames : NewProject(name)
  \/ \E pid \in ProjectIds : DeleteProject(pid)
  \/ \E pid \in FileProjectIds, name \in FileNames, c \in NewContents :
       NewFile(pid, name, c[1], c[2])
  \/ \E fid \in FileIds : ReadFile(fid)
  \/ \E fid \in FileIds, contents \in WriteContents : WriteFile(fid, contents)
  \/ \E fid \in FileIds, newName \in FileNames : RenameFile(fid, newName)
  \/ \E fid \in FileIds : DeleteFile(fid)
  \/ \E pid \in FileProjectIds, question \in Questions, filename \in RunNames :
       SetFileToRun(pid, question, filename)
  \/ \E pid \in FileProjectIds, question \in Questions :
       GetFileToRun(pid, question)

Spec == Init /\ [][Next]_vars

(***************************************************************************)
(* SpecSync: applyChanges, after local calls that make projects and files. *)
(***************************************************************************)
\* the changes a remote log is made of; "moveFile" is a type applyChanges
\* does not know
RemoteChanges ==
  {Change(t, f, p, "Y") : t \in {"newFile", "editFile"}, f \in FileNames,
                          p \in FileProjects}
  \cup {Change("deleteFile", f, p, Undefined) : f \in FileNames,
                                                p \in FileProjects}
  \cup {Change("moveFile", "a", "P", Undefined)}

\* the remote logs of at most k changes; what follows the first change that
\* throws is never read, so a log ends there
RECURSIVE RemoteLogs(_, _)
RemoteLogs(db, k) ==
  {<<>>} \cup
  IF k = 0 THEN {}
  ELSE UNION {LET r == applyChange(db, c)
              IN  IF r.err = "ok" /\ r.db.nextId <= MaxId + 1
                  THEN {<<c>> \o rest : rest \in RemoteLogs(r.db, k - 1)}
                  ELSE {<<c>>}
              : c \in RemoteChanges}

\* the lists of new and of deleted projects
NewProjectLists == {<<>>} \cup {<<n>> : n \in FileProjects}
DeletedProjectLists == {<<>>} \cup {<<p>> : p \in FileProjectIds}

NextSync ==
  \/ \E name \in ProjNames : NewProject(name)
  \/ \E pid \in ProjectIds : DeleteProject(pid)
  \/ \E pid \in FileProjectIds, name \in FileNames :
       NewFile(pid, name, "X", FALSE)
  \/ \E fid \in FileIds : WriteFile(fid, "Y")
  \/ \E newProjects \in NewProjectLists :
       LET r1 == applyNewProjects(Db, newProjects)
       IN  \E changes \in (IF r1.err = "ok" THEN RemoteLogs(r1.db, MaxBatch)
                           ELSE {<<>>}) :
             \E deletedProjects \in DeletedProjectLists :
               ApplyChanges(changes, newProjects, deletedProjects)

SpecSync == Init /\ [][NextSync]_vars

(***************************************************************************)
(* SpecView: what the views of a project do: files are made, written and   *)
(* renamed, listed, and opened and closed in tabs.                         *)
(***************************************************************************)
\* the values of Date.now() at the calls of getProjectFiles
Times == {1, 2}

NextView ==
  \/ \E name \in FileProjects : NewProject(name)
  \/ \E pid \in FileProjectIds, name \in FileNames :
       NewFile(pid, name, "X", FALSE)
  \/ \E fid \in FileIds, contents \in WriteContents : WriteFile(fid, contents)
  \/ \E fid \in FileIds, newName \in FileNames : RenameFile(fid, newName)
  \/ \E pid \in FileProjectIds, question \in Questions :
       SetFileToRun(pid, question, "a")
  \/ \E pid \in FileProjectIds, now \in Times : GetProjectFiles(pid, now)
  \/ \E pid \in FileProjectIds : GetOpenTabs(pid)
  \/ \E fid \in FileIds : AddOpenTab(fid)
  \/ \E fid \in FileIds : RemoveOpenTab(fid)

SpecView == Init /\ [][NextView]_vars

(***************************************************************************)
(* SpecSettings: the settings.                                             *)
(***************************************************************************)
\* the settings the model sets: two values for every field
SettingsInputs ==
  [editor_mode : {"vim", "emacs"}, font_size : {12, 13},
   font : {"Consolas", "Courier"}, theme : {"dark", "light"},
   space_tab : {TRUE, FALSE}, tab_width : {2, 4}]

NextSettings ==
  \/ \E settings_ \in SettingsInputs : SetSettings(settings_)
  \/ GetSettings

SpecSettings == Init /\ [][NextSettings]_vars

(***************************************************************************)
(* SpecLog: the change log used as a stack, one call at a time.            *)
(***************************************************************************)
\* the changes pushed on the log
LogChanges ==
  {Change("editFile", "a", "[P]", "X"), Change("editFile", "a", "[P]", "Y"),
   Change("editFile", "b", "[P]", "Y"), Change("newFile", "a", "[P]", "X"),
   Change("deleteFile", "a", "[P]", Undefined)}

NextLog ==
  \/ \E change \in LogChanges : PushChangeLog(change)
  \/ PopChangeLog
  \/ TopChangeLog
  \/ CountChangeLogs
  \/ GetChangeLogs
  \/ ClearChangeLogs

SpecLog == Init /\ [][NextLog]_vars

(***************************************************************************)
(* SpecRace: two callers of pushChangeLog at the same time.                *)
(***************************************************************************)
\* the changes the two callers push
RaceChanges ==
  {Change("editFile", "a", "[P]", "Y"), Change("newFile", "b", "[P]", "X"),
   Change("deleteFile", "a", "[P]", Undefined)}

NextRace ==
  \/ \E c \in Callers, change \in RaceChanges : BeginPush(c, change)
  \/ \E c \in Callers : EndPush(c)

SpecRace == Init /\ [][NextRace]_vars

(***************************************************************************)
(* The claims.                                                             *)
(***************************************************************************)
\* the tables and the key generator: everything but the record of the call
tables == <<files, projects, settings, changeLogs, nextId>>

\* the log holds the entry e
InLog(log, e) == \E i \in 1..Len(log) : log[i] = e

\* the change e is about the stored file fid: it names its name and project
Targets(e, fid) ==
  e.file = files[fid].name /\ e.project = files[fid].project

\* C1: writeFile(id, Y) immediately followed by writeFile(id, Z) leaves one
\* editFile entry for the pair: after the second call the top of the log is
\* an editFile entry with contents Z, the entry of the first call is gone,
\* the entries below it are as they were, and the log is as long as it was
\* after the first call.
C1_WriteTwiceCoalesces ==
  [][\A fid \in FileIds, z \in WriteContents :
       ( /\ last.op = "writeFile" /\ last.res = "ok"
         /\ last'.op = "writeFile"
         /\ fid \in DOMAIN files
         /\ Targets(topChangeLog(Db), fid)
         /\ WriteFile(fid, z) )
       => /\ last'.res = "ok"
          /\ Len(changeLogs') = Len(changeLogs)
          /\ topChangeLog(Db').type = "editFile"
          /\ topChangeLog(Db').contents = z
          /\ Targets(topChangeLog(Db'), fid)
          /\ ~InLog(changeLogs', topChangeLog(Db))
          /\ SubSeq(changeLogs', 1, Len(changeLogs') - 1)
               = SubSeq(changeLogs, 1, Len(changeLogs) - 1)
    ]_vars

\* C1, witness: a writeFile has just replaced the editFile entry that an
\* earlier writeFile of the same file had left on top of a longer log.
C1_Witness ==
  /\ last.op = "writeFile" /\ last.res = "ok"
  /\ Len(changeLogs) >= 2
  /\ Len(last.popped) = 1
  /\ last.popped[1].type = "editFile"
  /\ last.popped[1].file = topChangeLog(Db).file
  /\ last.popped[1].project = topChangeLog(Db).project
  /\ last.popped[1].contents # topChangeLog(Db).contents
  /\ topChangeLog(Db).type = "editFile"

\* C2: pushing an editFile entry for a file B when the top entry is an
\* editFile entry for another file A does not remove the entry of A: after
\* writeFile(A, x); writeFile(B, y) the log still holds the editFile entry
\* of A.
C2_OtherTargetKept ==
  [][\A fid \in FileIds, y \in WriteContents :
       ( /\ topChangeLog(Db).type = "editFile"
         /\ fid \in DOMAIN files
         /\ ~Targets(topChangeLog(Db), fid)
         /\ WriteFile(fid, y) )
       => InLog(changeLogs', topChangeLog(Db))
    ]_vars

\* the changes of the remote logs of two changes whose second change throws
\* after the first was applied
FailsSecond(db, c1, c2) ==
  /\ applyChange(db, c1).err = "ok"
  /\ applyChange(applyChange(db, c1).db, c2).err # "ok"

\* C3: applyChanges is all-or-nothing.  A call that throws leaves files,
\* projects, settings, the change log and its key generator as they were
\* before the call; and a batch with a step that throws (a new project that
\* exists, or a change that throws after an earlier change was applied: a
\* newFile of an existing name or in a missing project, an editFile or
\* deleteFile of an absent file, a change of an unknown type) throws that
\* error and commits nothing.
C3_ApplyChangesAllOrNothing ==
  /\ [][(last'.op = "applyChanges" /\ last'.res # "ok") => UNCHANGED tables]_vars
  /\ [](\A name \in ProjNames :
          projectId(name) \in DOMAIN projects =>
            LET r == applyChanges(Db, <<>>, <<name>>, <<>>)
            IN  r.err = "ConstraintError" /\ transaction(Db, r) = Db)
  /\ [](\A c1 \in RemoteChanges, c2 \in RemoteChanges :
          FailsSecond(Db, c1, c2) =>
            LET r == applyChanges(Db, <<c1, c2>>, <<>>, <<>>)
            IN  /\ r.err = applyChange(applyChange(Db, c1).db, c2).err
                /\ r.err \in {"NotFound", "AlreadyExists", "Malformed",
                              "ConstraintError"}
                /\ r.db # Db
                /\ transaction(Db, r) = Db)

\* C3, witness: an applyChanges has thrown after it had written, and the
\* local change log still holds its entries.
C3_Witness ==
  /\ last.op = "applyChanges" /\ last.res # "ok"
  /\ last.rolledBack
  /\ last.popped = <<>> /\ last.pushed = 0
  /\ changeLogs # <<>>

\* the remote log [newFile f][editFile f -> "Y"][deleteFile f] for the file
\* named f of the project named p
CreateEditDelete(f, p) ==
  <<Change("newFile", f, p, "X"), Change("editFile", f, p, "Y"),
    Change("deleteFile", f, p, Undefined)>>

\* C4: a successful applyChanges ends with an empty local change log,
\* whatever the log held and whatever the replayed operations pushed; it
\* replays the new projects, then the changes in order, then the project
\* deletions: [newFile f][editFile f][deleteFile f] on an existing project
\* without f succeeds and leaves no file f and a log of 0 entries, and a
\* batch that creates a project, puts a file in it and deletes the project
\* succeeds and leaves neither.
C4_ApplyChangesReplaysAndClears ==
  /\ (last.op = "applyChanges" /\ last.res = "ok") => countChangeLogs(Db) = 0
  /\ \A p \in FileProjects, f \in FileNames :
       LET pid == projectId(p)
           fid == fileId(pid, f)
           r == applyChanges(Db, CreateEditDelete(f, p), <<>>, <<>>)
       IN  ( /\ pid \in DOMAIN projects
             /\ countFiles(Db, f, pid) = 0 /\ fid \notin DOMAIN files )
           => /\ r.err = "ok"
              /\ fid \notin DOMAIN r.db.files
              /\ countChangeLogs(r.db) = 0
              /\ r.db.nextId = nextId + 3
              /\ r.db.projects = projects
  /\ \A p \in FileProjects, f \in FileNames :
       LET pid == projectId(p)
           r == applyChanges(Db, <<Change("newFile", f, p, "X")>>, <<p>>,
                             <<pid>>)
       IN  pid \notin DOMAIN projects
           => /\ r.err = "ok"
              /\ pid \notin DOMAIN r.db.projects
              /\ r.db.files = files
              /\ countChangeLogs(r.db) = 0

\* C4, witness: an applyChanges that replayed three changes has succeeded
\* and has cleared a local change log that held entries.
C4_Witness ==
  /\ last.op = "applyChanges" /\ last.res = "ok"
  /\ last.pushed = 3
  /\ last.popped # <<>>
  /\ changeLogs = <<>>

\* C5: deleteFile(id) removes the file and clears every runs[question] of
\* the owning project that refers to it: when setFileToRun(p, q, name) was
\* called for a file of p and the file is deleted, getFileToRun(p, q)
\* returns false afterwards.
C5_DeleteFilePrunesRuns ==
  [][\A fid \in FileIds, q \in Questions :
       ( /\ fid \in DOMAIN files
         /\ files[fid].project \in DOMAIN projects
         /\ getFileToRun(Db, files[fid].project, q).ret = files[fid].name
         /\ DeleteFile(fid) )
       => /\ last'.res = "ok"
          /\ fid \notin DOMAIN files'
          /\ getFileToRun(Db', files[fid].project, q).ret = False
    ]_vars

\* C6: deleteFile(id) for a file whose project has already been deleted
\* completes without raising and does not abort the enclosing batch: after a
\* deleteProject that removed a file, an applyChanges whose remote log is
\* the deleteFile change of that file succeeds.
C6_DoubleDeletionTolerated ==
  [][\A c \in RemoteChanges :
       ( /\ last.op = "deleteProject"
         /\ c.type = "deleteFile"
         /\ fileId(projectId(c.project), c.file) \in last.removed
         /\ ApplyChanges(<<c>>, <<>>, <<>>) )
       => last'.res = "ok"
    ]_vars

\* the id applyChanges derives from the names of a change
DerivedId(e) == fileId(projectId(e.project), e.file)

\* C7: every change-log entry of a local newFile, writeFile, renameFile or
\* deleteFile names its target by file name and project name, so that
\* fileId(projectId(entry.project), entry.file), as applyChanges derives it,
\* is the id of the file the operation acted on (for renameFile: the newFile
\* entry and the deleteFile entry name the project of the renamed file).
C7_EntriesNameTheirTarget ==
  [][/\ \A pid \in FileProjectIds, name \in FileNames, c \in NewContents :
          (NewFile(pid, name, c[1], c[2]) /\ last'.res = "ok")
          => DerivedId(topChangeLog(Db')) = fileId(pid, name)
     /\ \A fid \in FileIds :
          ( /\ fid \in DOMAIN files
            /\ \/ \E c \in WriteContents : WriteFile(fid, c)
               \/ DeleteFile(fid) )
          => DerivedId(topChangeLog(Db')) = fid
     /\ \A fid \in FileIds, newName \in FileNames :
          (fid \in DOMAIN files /\ RenameFile(fid, newName))
          => \A i \in Len(changeLogs) + 1 .. Len(changeLogs') :
               projectId(changeLogs'[i].project) = files[fid].project
    ]_vars

\* C8: readFile, writeFile, renameFile and deleteFile of an id without a
\* File record fail with NotFound and leave the tables unchanged, no entry
\* pushed; so does a second deleteFile(id) after a successful one.
C8_AbsentFileNotFound ==
  [][\A fid \in FileIds :
       /\ ( /\ fid \notin DOMAIN files
            /\ last'.op \in {"readFile", "writeFile", "renameFile",
                             "deleteFile"}
            /\ \/ ReadFile(fid)
               \/ \E c \in WriteContents : WriteFile(fid, c)
               \/ \E n \in FileNames : RenameFile(fid, n)
               \/ DeleteFile(fid) )
          => (last'.res = "NotFound" /\ UNCHANGED tables)
       /\ ( /\ last.op = "deleteFile" /\ last.res = "ok"
            /\ fid \in last.removed
            /\ DeleteFile(fid) )
          => (last'.res = "NotFound" /\ UNCHANGED tables)
    ]_vars

\* C8, witness: a second deleteFile of a file has failed with NotFound, the
\* deleteFile entry of the first still on top of the log.
C8_Witness ==
  /\ last.op = "deleteFile" /\ last.res = "NotFound"
  /\ topChangeLog(Db).type = "deleteFile"
  /\ DOMAIN files = {}
  /\ ~last.rolledBack

\* C9: newFile(p, name, X) on an existing project p with no file of that
\* name stores a file under fileId(p, name) that readFile returns with
\* contents X and checksum md5(X), and pushes one newFile entry; with a file
\* of that name in p it fails with AlreadyExists, on a missing project with
\* NotFound, both leaving the tables unchanged.
C9_NewFileStores ==
  [][\A pid \in FileProjectIds, name \in FileNames, c \in NewContents :
       (c[2] = FALSE /\ NewFile(pid, name, c[1], c[2]))
       => IF countFiles(Db, name, pid) > 0
          THEN last'.res = "AlreadyExists" /\ UNCHANGED tables
          ELSE IF pid \notin DOMAIN projects
          THEN last'.res = "NotFound" /\ UNCHANGED tables
          ELSE /\ last'.res = "ok"
               /\ readFile(Db', fileId(pid, name)).err = "ok"
               /\ readFile(Db', fileId(pid, name)).ret.contents = c[1]
               /\ readFile(Db', fileId(pid, name)).ret.checksum = md5(c[1])
               /\ changeLogs' = Append(changeLogs,
                                       [Change("newFile", name, pid, c[1])
                                          EXCEPT !.id = nextId])
    ]_vars

\* C10: renameFile(id, newName) of an existing file appends two entries to
\* the change log, a newFile entry with newName and the contents of the
\* file, then a deleteFile entry with the old name; it removes no entry and
\* leaves the contents and the checksum of the file as they were.
C10_RenameAppendsTwo ==
  [][\A fid \in FileIds, newName \in FileNames :
       ( /\ fid \in DOMAIN files
         /\ last'.op = "renameFile"
         /\ RenameFile(fid, newName) )
       => /\ last'.res = "ok"
          /\ Len(changeLogs') = Len(changeLogs) + 2
          /\ SubSeq(changeLogs', 1, Len(changeLogs)) = changeLogs
          /\ changeLogs'[Len(changeLogs) + 1] =
               [id |-> nextId, type |-> "newFile", file |-> newName,
                project |-> files[fid].project,
                contents |-> files[fid].contents]
          /\ changeLogs'[Len(changeLogs) + 2] =
               [id |-> nextId + 1, type |-> "deleteFile",
                file |-> files[fid].name, project |-> files[fid].project,
                contents |-> Undefined]
          /\ files'[fid].contents = files[fid].contents
          /\ files'[fid].checksum = files[fid].checksum
          /\ files'[fid].name = newName
    ]_vars

\* C10, witness: a renameFile has put its two entries on a log that held an
\* editFile entry on top, which is still there.
C10_Witness ==
  /\ last.op = "renameFile" /\ last.res = "ok"
  /\ last.pushed = 2 /\ last.popped = <<>>
  /\ Len(changeLogs) >= 4
  /\ changeLogs[Len(changeLogs) - 2].type = "editFile"
  /\ changeLogs[Len(changeLogs) - 1].type = "newFile"
  /\ changeLogs[Len(changeLogs)].type = "deleteFile"
  /\ changeLogs[Len(changeLogs) - 1].file # changeLogs[Len(changeLogs)].file

\* C11: in every reachable state the id of each stored File is
\* fileId(projectId, name) for its current project and name, so that a
\* renameFile(id, newName) gives the file the id fileId(projectId, newName).
C11_IdIsHashOfCurrentName ==
  \A f \in DOMAIN files :
    /\ files[f].id = f
    /\ f = fileId(files[f].project, files[f].name)

\* C12: in every reachable state every runs[question] of every stored
\* project names a file that is stored and is of that project.
C12_RunsNameStoredFiles ==
  \A p \in DOMAIN projects : \A q \in DOMAIN projects[p].runs :
    \E f \in DOMAIN files :
      /\ files[f].project = p
      /\ files[f].name = projects[p].runs[q]

\* the checksum of every file of the table is the md5 of its contents, and
\* is "" exactly when it has no contents
ChecksumsMatch(table) ==
  \A f \in DOMAIN table :
    /\ table[f].checksum = IF table[f].contents = Undefined THEN ""
                           ELSE md5(table[f].contents)
    /\ table[f].checksum = "" <=> table[f].contents = Undefined

\* the remote changes with and without contents
ChangesWithOrWithoutContents ==
  RemoteChanges \cup
  {Change(t, f, p, Undefined) : t \in {"newFile", "editFile"},
                                f \in FileNames, p \in FileProjects}

\* C13: in every reachable state the checksum of each stored File is the
\* md5 of its contents, and is the empty string exactly when the contents
\* are absent; newFile, writeFile, renameFile and the open-tab calls leave
\* it so, and so does every change that applyChanges applies.
C13_ChecksumOfContents ==
  /\ ChecksumsMatch(files)
  /\ \A c \in ChangesWithOrWithoutContents :
       applyChange(Db, c).err = "ok" => ChecksumsMatch(applyChange(Db, c).db.files)

\* C13, witness: a writeFile without contents has left a file with the
\* checksum "", next to a file that is open in a tab and has the checksum
\* of the contents written to it.
C13_Witness ==
  /\ last.op = "writeFile" /\ last.res = "ok"
  /\ \E f \in DOMAIN files, g \in DOMAIN files :
       /\ files[f].contents = Undefined /\ files[f].checksum = ""
       /\ files[g].contents = "Y" /\ files[g].checksum = md5("Y")
       /\ files[g].open = 1

\* C14: pushChangeLog called directly is atomic under concurrent callers:
\* the entry it removes is the top entry it inspected, and no interleaving
\* of two concurrent pushes removes a newFile or deleteFile entry from the
\* log.
C14_PushChangeLogAtomic ==
  [][/\ \A c \in Callers :
          EndPush(c) =>
            \A i \in 1..Len(last'.popped) : last'.popped[i] = callers[c].top
     /\ \A i \in 1..Len(changeLogs) :
          changeLogs[i].type \in {"newFile", "deleteFile"}
          => InLog(changeLogs', changeLogs[i])
    ]_vars

\* C15: in sequential use pushChangeLog(e) removes an entry only when e and
\* the top entry are both editFile, and then it is the top entry it removes
\* and e takes its place; in every other case the log after the push is the
\* log before it with e on top: one entry more, the earlier entries as they
\* were.
C15_OnlyEditsCoalesce ==
  [][\A change \in LogChanges :
       PushChangeLog(change) =>
         LET top == topChangeLog(Db)
             e == [change EXCEPT !.id = nextId]
         IN  /\ last'.res = "ok"
             /\ IF Len(changeLogs) > 0 /\ change.type = "editFile"
                                       /\ top.type = "editFile"
                THEN /\ last'.popped = <<top>>
                     /\ changeLogs' =
                          Append(SubSeq(changeLogs, 1, Len(changeLogs) - 1), e)
                ELSE /\ last'.popped = <<>>
                     /\ changeLogs' = Append(changeLogs, e)
                     /\ countChangeLogs(Db') = countChangeLogs(Db) + 1
    ]_vars

\* C15, witness: an editFile entry has been pushed on a newFile entry,
\* which is still there, below it an editFile entry.
C15_Witness ==
  /\ last.op = "pushChangeLog" /\ last.res = "ok"
  /\ last.popped = <<>>
  /\ Len(changeLogs) >= 3
  /\ changeLogs[Len(changeLogs)].type = "editFile"
  /\ changeLogs[Len(changeLogs) - 1].type = "newFile"
  /\ changeLogs[Len(changeLogs) - 2].type = "editFile"

\* C16: every successful newFile, writeFile, renameFile, deleteFile,
\* newProject and deleteProject (the removal of the files of the deleted
\* project included) puts at least one new entry in the change log.
C16_EveryMutationLogged ==
  [][( /\ last'.res = "ok"
       /\ last'.op \in {"newFile", "writeFile", "renameFile", "deleteFile",
                        "newProject", "deleteProject"} )
     => last'.pushed >= 1
    ]_vars

\* C16, as the code has it: every successful newFile, writeFile, renameFile
\* and deleteFile puts at least one new entry on top of the change log, of
\* the type of the mutation (newFile, editFile, deleteFile; for renameFile
\* a newFile entry and a deleteFile entry) and with the name of the file;
\* newProject and deleteProject put none, also when deleteProject removes
\* files, and leave the change log and its key generator as they were.
C16_FileMutationsLogged ==
  [][/\ \A pid \in FileProjectIds, name \in FileNames, c \in NewContents :
          ( /\ last'.op = "newFile" /\ last'.res = "ok"
            /\ NewFile(pid, name, c[1], c[2]) )
          => /\ last'.pushed = 1
             /\ topChangeLog(Db').id = nextId
             /\ topChangeLog(Db').type = "newFile"
             /\ topChangeLog(Db').file = name
     /\ \A fid \in FileIds, c \in WriteContents :
          ( /\ last'.op = "writeFile" /\ last'.res = "ok"
            /\ WriteFile(fid, c) )
          => /\ last'.pushed = 1
             /\ topChangeLog(Db').id = nextId
             /\ topChangeLog(Db').type = "editFile"
             /\ topChangeLog(Db').file = files[fid].name
             /\ topChangeLog(Db').contents = c
     /\ \A fid \in FileIds :
          ( /\ last'.op = "deleteFile" /\ last'.res = "ok"
            /\ DeleteFile(fid) )
          => /\ last'.pushed = 1
             /\ topChangeLog(Db').id = nextId
             /\ topChangeLog(Db').type = "deleteFile"
             /\ topChangeLog(Db').file = files[fid].name
     /\ \A fid \in FileIds, newName \in FileNames :
          ( /\ last'.op = "renameFile" /\ last'.res = "ok"
            /\ RenameFile(fid, newName) )
          => /\ last'.pushed = 2
             /\ topChangeLog(Db').id = nextId + 1
             /\ topChangeLog(Db').type = "deleteFile"
             /\ topChangeLog(Db').file = files[fid].name
     /\ last'.op \in {"newProject", "deleteProject"}
          => /\ changeLogs' = changeLogs
             /\ nextId' = nextId
    ]_vars

\* C16, witness: a deleteProject has removed files and has put nothing in
\* the change log, which holds the entries of the file operations before it.
C16_Witness ==
  /\ last.op = "deleteProject" /\ last.res = "ok"
  /\ last.removed # {}
  /\ last.pushed = 0
  /\ changeLogs # <<>>
  /\ topChangeLog(Db).type # "deleteFile"

\* C17: deleteProject(id) removes, in one step, the Project record of id
\* and every File record whose project is id, and leaves every other
\* project and the files of other projects as they were; afterwards
\* readFile fails with NotFound for each file that was of the project.
C17_DeleteProjectRemovesItsFiles ==
  [][\A pid \in ProjectIds :
       (last'.op = "deleteProject" /\ DeleteProject(pid))
       => /\ last'.res = "ok"
          /\ DOMAIN projects' = DOMAIN projects \ {pid}
          /\ \A p \in DOMAIN projects' : projects'[p] = projects[p]
          /\ DOMAIN files' = {f \in DOMAIN files : files[f].project # pid}
          /\ \A f \in DOMAIN files' : files'[f] = files[f]
          /\ \A f \in DOMAIN files :
               files[f].project = pid => readFile(Db', f).err = "NotFound"
    ]_vars

\* C17, witness: a deleteProject has removed the two files of a project,
\* and another project is still there.
C17_Witness ==
  /\ last.op = "deleteProject" /\ last.res = "ok"
  /\ Cardinality(last.removed) = 2
  /\ DOMAIN files = {}
  /\ DOMAIN projects # {}

\* C18: the settings table never holds a record other than the one of
\* key 0; getSettings returns the default instance while there is no
\* record; and after setSettings(s) getSettings returns a value equal to s
\* in editor_mode, font_size, font, theme, space_tab and tab_width.
C18_SettingsSingletonRoundTrip ==
  /\ [](/\ DOMAIN settings \subseteq {0}
        /\ getSettings(Db).err = "ok"
        /\ DOMAIN settings = {} => getSettings(Db).ret = DefaultSettings)
  /\ [][\A s \in SettingsInputs :
          SetSettings(s) =>
            LET got == getSettings(Db').ret
            IN  /\ last'.res = "ok"
                /\ DOMAIN settings' = {0}
                /\ got.editor_mode = s.editor_mode
                /\ got.font_size = s.font_size
                /\ got.font = s.font
                /\ got.theme = s.theme
                /\ got.space_tab = s.space_tab
                /\ got.tab_width = s.tab_width
       ]_vars

\* C18, witness: getSettings has been called on the one record that a
\* setSettings stored.
C18_Witness ==
  /\ last.op = "getSettings" /\ last.res = "ok"
  /\ DOMAIN settings = {0}
  /\ getSettings(Db).ret.editor_mode = "emacs"
  /\ getSettings(Db).ret.tab_width = 4
  /\ getSettings(Db).ret.font_size = 13

\* C19: getProjectFiles(p) returns the stored files whose project is p and
\* nothing else; a second call with no write in between returns the same
\* set; and a call leaves the files, the change log, the settings and the
\* name and the runs of the project as they were: it changes nothing but
\* the last_modified of the project.  On a missing project it throws and
\* changes nothing.
C19_GetProjectFilesIdempotent ==
  [][\A pid \in FileProjectIds, now \in Times :
       (last'.op = "getProjectFiles" /\ GetProjectFiles(pid, now))
       => IF pid \notin DOMAIN projects
          THEN last'.res = "NotFound" /\ UNCHANGED tables
          ELSE LET first == getProjectFiles(Db, pid, now)
               IN  /\ last'.res = "ok"
                   /\ first.ret =
                        {FileBrief(files[f]) :
                           f \in {x \in DOMAIN files : files[x].project = pid}}
                   /\ {fb.id : fb \in first.ret} =
                        {f \in DOMAIN files : files[f].project = pid}
                   /\ \A later \in Times :
                        getProjectFiles(Db', pid, later).ret = first.ret
                   /\ UNCHANGED <<files, changeLogs, nextId, settings>>
                   /\ projects'[pid].name = projects[pid].name
                   /\ projects'[pid].runs = projects[pid].runs
                   /\ projects' = [projects EXCEPT ![pid].last_modified = now]
    ]_vars

\* C19, witness: getProjectFiles has been called a second time, at a later
\* time, on a project with two files, one of them open, and a file to run.
C19_Witness ==
  /\ last.op = "getProjectFiles" /\ last.res = "ok"
  /\ \E p \in DOMAIN projects :
       /\ projects[p].last_modified = 2
       /\ DOMAIN projects[p].runs # {}
       /\ Cardinality(getProjectFiles(Db, p, 2).ret) = 2
       /\ \E fb \in getProjectFiles(Db, p, 2).ret : fb.open = 1

\* C20: after a renameFile of a file of project p from name A to name B,
\* newFile(p, A, ...) cannot make a file named A again: the id fileId(p, A)
\* is still that of the renamed file, the call fails (with the constraint
\* error of files.add when no file is named A) and leaves the files and the
\* change log as they were.
C20_OldNameCannotBeCreated ==
  [][\A pid \in FileProjectIds, name \in FileNames, c \in NewContents :
       ( /\ last'.op = "newFile"
         /\ fileId(pid, name) \in DOMAIN files
         /\ files[fileId(pid, name)].name # name
         /\ NewFile(pid, name, c[1], c[2]) )
       => /\ last'.res # "ok"
          /\ countFiles(Db, name, pid) = 0 => last'.res = "ConstraintError"
          /\ UNCHANGED tables
    ]_vars

\* C20, witness: a newFile of the old name of a renamed file has failed on
\* the id of the renamed file, no file having that name; the entries of the
\* rename are the top of the log.
C20_Witness ==
  /\ last.op = "newFile" /\ last.res = "ConstraintError"
  /\ last.pushed = 0
  /\ \E f \in DOMAIN files :
       /\ f # fileId(files[f].project, files[f].name)
       /\ \A g \in DOMAIN files :
            f # fileId(files[g].project, files[g].name)
  /\ topChangeLog(Db).type = "deleteFile"

\* C21: the change log is a stack with strictly increasing sequence
\* numbers.  The ids of the entries increase from the oldest to the newest;
\* pushChangeLog returns an id greater than that of every entry in the log,
\* also after pops, and never one it gave before; the pushed entry is then
\* what topChangeLog returns and the first of getChangeLogs; popChangeLog
\* removes and returns the top entry and no other; topChangeLog and
\* getChangeLogs never change the log; on an empty log topChangeLog and
\* popChangeLog return false and leave the log empty.
C21_LogIsAStack ==
  /\ [](/\ \A i \in 1..Len(changeLogs), j \in 1..Len(changeLogs) :
             i < j => changeLogs[i].id < changeLogs[j].id
        /\ \A i \in 1..Len(changeLogs) : changeLogs[i].id < nextId
        /\ Len(changeLogs) = 0 =>
             /\ topChangeLog(Db) = NoChangeLog
             /\ popChangeLog(Db).ret = NoChangeLog
             /\ popChangeLog(Db).db = Db)
  /\ [][/\ \A change \in LogChanges :
             PushChangeLog(change) =>
               LET seq == pushChangeLog(Db, change).ret
               IN  /\ \A i \in 1..Len(changeLogs) : seq > changeLogs[i].id
                   /\ seq >= nextId /\ nextId' > seq
                   /\ topChangeLog(Db') = [change EXCEPT !.id = seq]
                   /\ getChangeLogs(Db')[1] = topChangeLog(Db')
                   /\ Len(getChangeLogs(Db')) = countChangeLogs(Db')
        /\ (last'.op = "popChangeLog" /\ PopChangeLog) =>
             /\ popChangeLog(Db).ret = topChangeLog(Db)
             /\ last'.popped = IF Len(changeLogs) = 0 THEN <<>>
                               ELSE <<topChangeLog(Db)>>
             /\ changeLogs' = SubSeq(changeLogs, 1, Len(changeLogs) - 1)
             /\ nextId' = nextId
        /\ last'.op \in {"topChangeLog", "getChangeLogs", "countChangeLogs"}
             => UNCHANGED tables
       ]_vars

\* C21, witness: after pops, a push has put a deleteFile entry with an id
\* above every id given before on a newFile entry that stayed.
C21_Witness ==
  /\ last.op = "pushChangeLog" /\ last.res = "ok"
  /\ Len(changeLogs) = 2
  /\ changeLogs[1].type = "newFile" /\ changeLogs[1].id = 1
  /\ changeLogs[2].type = "deleteFile" /\ changeLogs[2].id = 4
  /\ nextId = 5

\* C22: addOpenTab and removeOpenTab change only the open flag of the File
\* record of the given id, to 1 and to 0, and leave the change log, the
\* projects, the settings and every other field of every file as they were
\* (nothing at all changes when there is no file of that id); a file that
\* newFile made has the flag 0; and getOpenTabs(p) returns the files of
\* project p whose flag is 1, and no other.
C22_OpenTabsOnlyTouchTheFlag ==
  /\ [](\A pid \in FileProjectIds :
          /\ getOpenTabs(Db, pid).err = "ok"
          /\ getOpenTabs(Db, pid).db = Db
          /\ getOpenTabs(Db, pid).ret =
               {FileBrief(files[f]) :
                  f \in {x \in DOMAIN files :
                           files[x].project = pid /\ files[x].open = 1}}
          /\ {fb.id : fb \in getOpenTabs(Db, pid).ret} =
               {f \in DOMAIN files : files[f].project = pid /\ files[f].open = 1})
  /\ [][/\ \A fid \in FileIds :
             (last'.op = "addOpenTab" /\ AddOpenTab(fid))
             => /\ last'.res = "ok"
                /\ UNCHANGED <<changeLogs, nextId, projects, settings>>
                /\ files' = IF fid \in DOMAIN files
                            THEN [files EXCEPT ![fid].open = 1]
                            ELSE files
        /\ \A fid \in FileIds :
             (last'.op = "removeOpenTab" /\ RemoveOpenTab(fid))
             => /\ last'.res = "ok"
                /\ UNCHANGED <<changeLogs, nextId, projects, settings>>
                /\ files' = IF fid \in DOMAIN files
                            THEN [files EXCEPT ![fid].open = 0]
                            ELSE files
        /\ (last'.op = "newFile" /\ last'.res = "ok")
             => \A f \in DOMAIN files' \ DOMAIN files : files'[f].open = 0
        /\ last'.op = "getOpenTabs" => UNCHANGED tables
       ]_vars

\* C22, witness: a removeOpenTab has closed one of two files that were open
\* in tabs; the other is still open, and the log holds only the entries of
\* the two newFile calls.
C22_Witness ==
  /\ last.op = "removeOpenTab" /\ last.res = "ok"
  /\ \E f \in DOMAIN files, g \in DOMAIN files :
       /\ files[f].open = 0 /\ files[g].open = 1
       /\ \E p \in DOMAIN projects :
            getOpenTabs(Db, p).ret = {FileBrief(files[g])}
  /\ Len(changeLogs) = 2
  /\ \A i \in 1..Len(changeLogs) : changeLogs[i].type = "newFile"

\* C23: in every reachable state no two stored File records have the same
\* project and the same name; a renameFile to a name that is in use in the
\* project makes no duplicate.
C23_NamesUniqueInProject ==
  \A f \in DOMAIN files, g \in DOMAIN files :
    (files[f].project = files[g].project /\ files[f].name = files[g].name)
    => f = g

\* the project of every file of the database is a stored project
FilesHaveProjects(db) ==
  \A f \in DOMAIN db.files : db.files[f].project \in DOMAIN db.projects

\* C24: in every reachable state the project of each stored File is the id
\* of a stored Project; newFile in a missing project fails, deleteProject
\* leaves no file of the project, and every step of applyChanges (a new
\* project, a change, a deleted project) keeps it so.
C24_FilesHaveProjects ==
  /\ FilesHaveProjects(Db)
  /\ \A name \in ProjNames :
       FilesHaveProjects(applyNewProjects(Db, <<name>>).db)
  /\ \A c \in ChangesWithOrWithoutContents :
       FilesHaveProjects(applyChange(Db, c).db)
  /\ \A pid \in ProjectIds :
       FilesHaveProjects(applyDeletedProjects(Db, <<pid>>).db)

\* C24, witness: a newFile has failed for want of its project, which a
\* deleteProject had removed with its files; their entries are in the log.
C24_Witness ==
  /\ last.op = "newFile" /\ last.res = "NotFound"
  /\ DOMAIN files = {}
  /\ DOMAIN projects # {}
  /\ changeLogs # <<>>

\* C25: every stored file can be addressed by reconciliation through its
\* current name: for each stored File with name n in the project named P,
\* an applyChanges of the one change editFile (n, P) succeeds and writes
\* that file, and of the one change deleteFile (n, P) succeeds and removes
\* it, also when the file has its name from a renameFile.
C25_AddressableByCurrentName ==
  \A f \in DOMAIN files :
    LET n == files[f].name
        P == projects[files[f].project].name
        edit == applyChanges(Db, <<Change("editFile", n, P, "Y")>>, <<>>, <<>>)
        delete == applyChanges(Db, <<Change("deleteFile", n, P, Undefined)>>,
                               <<>>, <<>>)
    IN  /\ edit.err = "ok"
        /\ edit.db.files[f].contents = "Y"
        /\ delete.err = "ok"
        /\ f \notin DOMAIN delete.db.files

====
